---- MODULE Spec2Model ----
(***************************************************************************)
(* Verzod: versioned entities over Zod schemas (src/src/index.ts).         *)
(*                                                                         *)
(* An entity is a version map (version number -> version definition), a   *)
(* latest version and a version resolver.  The three public methods of     *)
(* VersionedEntity (is, isLatest, safeParse) and the entityReference       *)
(* schema are modelled as operators that compute what the code computes;   *)
(* every method call is one action of the state machine.  Each call also   *)
(* records which collaborators it invoked (resolver, validators, upgrade   *)
(* functions), the way a spy would in a test.                              *)
(*                                                                         *)
(* Values that may be null/undefined are one-element-or-empty sets         *)
(* (numbers) or tuples (records), so that they stay comparable.            *)
(***************************************************************************)
EXTENDS Integers, Sequences, FiniteSets, TLC

\* Highest version number a version map of the model may define.
MaxVer == 3

\* Numbers a payload may carry in its `v` field: every key a version map may
\* have, and zero, a negative number and a number above every key.
Tags == (0 - 1)..(MaxVer + 1)

\* Field names of the payload shapes: odd versions require `a`, even ones `b`
\* (the shapes of migrate_child_v1 / migrate_child_v2).
FieldOf(k) == IF k % 2 = 1 THEN "a" ELSE "b"

\* `undefined`: no value, or the value under a key the object lacks.
NoData ==
  [obj |-> FALSE, v |-> {}, fields |-> {}, val |-> 0, strs |-> {},
   child |-> <<>>]

\* An object payload: optional numeric `v`, the number-valued fields it has
\* (all holding `val`), and an optional nested `child` object.
Obj(v, fields, val, child) ==
  [obj |-> TRUE, v |-> v, fields |-> fields, val |-> val, strs |-> {},
   child |-> child]

\* An object payload whose fields `strs` hold the string "b", as
\* { v: 1, a: "b" } does; it has no number-valued field and no child.
Lit(v, strs) ==
  [obj |-> TRUE, v |-> v, fields |-> {}, val |-> 0, strs |-> strs,
   child |-> <<>>]

\* The value under the `child` key (undefined when the key is absent).
ChildOf(data) == IF data.child = <<>> THEN NoData ELSE data.child[1]

\* z.object({ v: z.literal(k), <FieldOf(k)>: z.number() [, child: entityReference(ref)] })
ObjectSchema(k, ref) ==
  [v |-> k, field |-> FieldOf(k), type |-> "number", ref |-> ref]

\* z.object({ v: z.literal(k), a: z.literal("b") })
LiteralSchema(k) == [v |-> k, field |-> "a", type |-> "literal", ref |-> "none"]

\* defineVersion({ initial: true, schema })
InitialVersion(schema) == [initial |-> TRUE, schema |-> schema, up |-> "none"]

\* defineVersion({ initial: false, schema, up })
UpgradeVersion(schema, up) == [initial |-> FALSE, schema |-> schema, up |-> up]

\* createVersionedEntity / the constructor: the three private fields.
CreateVersionedEntity(versionMap, latestVersion, getVersion) ==
  [versionMap |-> versionMap, latestVersion |-> latestVersion,
   getVersion |-> getVersion]

\* The entities that reference schemas of the model point at, each with the
\* resolver it is defined with:
\*  "child": migrateChildVersioned (1 initial, 2 upgradeable, latest 2,
\*           resolver data["v"] behind an object check);
\*  "gap":   the entity of the BUG_NO_INTERMEDIATE_FOUND test (1 and 3
\*           defined with the schema { v, a: "b" }, latest 3, resolver
\*           (data as any).v).
ReferencedEntity(ref) ==
  IF ref = "child"
  THEN CreateVersionedEntity(
         (1 :> InitialVersion(ObjectSchema(1, "none")))
           @@ (2 :> UpgradeVersion(ObjectSchema(2, "none"), "conform")),
         2, "raw")
  ELSE CreateVersionedEntity(
         (1 :> InitialVersion(LiteralSchema(1)))
           @@ (3 :> UpgradeVersion(LiteralSchema(3), "identity")),
         3, "unchecked")

\* What a call of the resolver ends in: null, undefined, a number, or a
\* TypeError thrown by reading a property of undefined.
Null == [kind |-> "null", n |-> 0]

Undefined == [kind |-> "undefined", n |-> 0]

Number(n) == [kind |-> "number", n |-> n]

TypeError == [kind |-> "throws", n |-> 0]

\* data["v"] of an object: its number, or undefined when it has none.
VOf(data) == IF data.v = {} THEN Undefined ELSE Number(CHOOSE x \in data.v : TRUE)

\* getVersion(data): the resolver handed to the constructor.
\*  "v":         null unless data is an object whose `v` is a number, else
\*               that number;
\*  "raw":       null unless data is an object, else data["v"], whatever
\*               it is;
\*  "unchecked": (data as any).v, which throws when data is undefined;
\*  "first":     a resolver that treats every object as version 1;
\*  "never":     a resolver that cannot determine any version.
GetVersion(getVersion, data) ==
  CASE getVersion = "v" ->
         IF ~data.obj \/ data.v = {} THEN Null ELSE VOf(data)
    [] getVersion = "raw" ->
         IF ~data.obj THEN Null ELSE VOf(data)
    [] getVersion = "unchecked" ->
         IF ~data.obj THEN TypeError ELSE VOf(data)
    [] getVersion = "first" ->
         IF ~data.obj THEN Null ELSE Number(1)
    [] OTHER -> Null

\* versionDef.up(old): the upgrade functions of the tests.
\*  "conform":  builds the new shape from the old one ({ v: 2, b: old.a },
\*              { v: 2, d: old.c, child: old.child });
\*  "identity": returns old unchanged (`return old as any`).
Up(versionDef, old) ==
  IF versionDef.up = "conform"
  THEN Obj({versionDef.schema.v}, {versionDef.schema.field}, old.val, old.child)
  ELSE old

\* What a call invoked, in order: the resolver's results, the versions whose
\* schema validated a value, the versions whose `up` ran, and the `up`s run
\* by entity references inside the validated schema.
NoCalls == [resolved |-> <<>>, validated |-> <<>>, ups |-> <<>>, refUps |-> <<>>]

\* ParseResult<T>: { type: "ok", value } | { type: "err", error: {...} }, and
\* "throw" for a call that ends in an exception instead of a result.
Result(type, error) ==
  [type |-> type, error |-> error, version |-> {}, versionDef |-> <<>>,
   missingVer |-> {}, ver |-> {}, value |-> NoData] @@ NoCalls

\* Outcome of schema.safeParse(data): { success: true, data } |
\* { success: false, error }, or an exception out of a transform.
Accept(out, refUps) ==
  [success |-> TRUE, thrown |-> FALSE, data |-> out, refUps |-> refUps]

Reject == [success |-> FALSE, thrown |-> FALSE, data |-> NoData, refUps |-> <<>>]

Thrown == [success |-> FALSE, thrown |-> TRUE, data |-> NoData, refUps |-> <<>>]

RECURSIVE SchemaSafeParse(_, _)
RECURSIVE SafeParse(_, _)

\* The key versionMap[ver] reads.
HasVersion(versionMap, ver) == ver \in DOMAIN versionMap

\* versionMap[ver] of a resolver result is a definition: undefined is no
\* key of any version map.
Defined(versionMap, ver) == ver.kind = "number" /\ HasVersion(versionMap, ver.n)

\* An `is` that accepts every value of a known version without validating it.
IsUnvalidated(entity, data) ==
  LET ver == GetVersion(entity.getVersion, data)
      calls == [NoCalls EXCEPT !.resolved = <<ver>>]
  IN  IF ver.kind = "throws"
      THEN [result |-> "throw"] @@ calls
      ELSE IF Defined(entity.versionMap, ver)
      THEN [result |-> "true"] @@ calls
      ELSE [result |-> "false"] @@ calls

\* An `is` that answers by migrating: safeParse(data).type === "ok".
IsByParsing(entity, data) ==
  LET parsed == SafeParse(entity, data)
  IN  [result |-> IF parsed.type = "ok" THEN "true"
                  ELSE IF parsed.type = "throw" THEN "throw" ELSE "false",
       resolved |-> parsed.resolved, validated |-> parsed.validated,
       ups |-> parsed.ups, refUps |-> parsed.refUps]

\* schema.safeParse(data).success, where `pass` is what the schema of
\* version n made of the value: true or false, or the exception the schema
\* ended in.
Success(calls, n, pass) ==
  [result |-> IF pass.thrown THEN "throw"
              ELSE IF pass.success THEN "true" ELSE "false"]
    @@ [calls EXCEPT !.validated = <<n>>, !.refUps = pass.refUps]

\* VersionedEntity.is
Is(entity, data) ==
  LET ver == GetVersion(entity.getVersion, data)
      calls == [NoCalls EXCEPT !.resolved = <<ver>>]
  IN  IF ver.kind = "throws"
      THEN [result |-> "throw"] @@ calls
      ELSE IF ver = Null
      THEN [result |-> "false"] @@ calls
      ELSE IF ~Defined(entity.versionMap, ver)
      THEN [result |-> "false"] @@ calls
      ELSE Success(calls, ver.n,
                   SchemaSafeParse(entity.versionMap[ver.n].schema, data))

\* An `isLatest` that trusts the resolver: is(data) with the resolved version
\* equal to the latest one.
IsLatestByResolver(entity, data) ==
  IF GetVersion(entity.getVersion, data) = Number(entity.latestVersion)
  THEN Is(entity, data)
  ELSE [result |-> "false"] @@
       [NoCalls EXCEPT !.resolved = <<GetVersion(entity.getVersion, data)>>]

\* VersionedEntity.isLatest
IsLatest(entity, data) ==
  Success(NoCalls, entity.latestVersion,
          SchemaSafeParse(entity.versionMap[entity.latestVersion].schema, data))

\* A loop that starts at the resolved version itself.
FirstUpAtResolved(ver) == ver

\* for (let up = ver + 1; ...
FirstUp(ver) == ver + 1

\* A loop that stops one version short of the latest.
LoopCondExclusive(up, latestVersion) == up < latestVersion

\* ...; up <= this.latestVersion; ...
LoopCond(up, latestVersion) == up <= latestVersion

\* A loop that steps over every other version.
NextUpSkipping(up) == up + 2

\* ...; up++)
NextUp(up) == up + 1

\* A gap raised as an exception instead of returned as data.
NoIntermediateFoundRaised(up, ups) == [Result("throw", "none") EXCEPT !.ups = ups]

\* A gap reported under the last version seen instead of the missing one.
NoIntermediateFoundBehind(up, ups) ==
  [Result("err", "BUG_NO_INTERMEDIATE_FOUND") EXCEPT !.missingVer = {up - 1},
                                                     !.ups = ups]

\* { type: "err", error: { type: "BUG_NO_INTERMEDIATE_FOUND", missingVer: up } }
NoIntermediateFound(up, ups) ==
  [Result("err", "BUG_NO_INTERMEDIATE_FOUND") EXCEPT !.missingVer = {up},
                                                     !.ups = ups]

\* { type: "err", error: { type: "BUG_INTERMEDIATE_MARKED_INITIAL", ver: up } }
IntermediateMarkedInitial(up, ups) ==
  [Result("err", "BUG_INTERMEDIATE_MARKED_INITIAL") EXCEPT !.ver = {up},
                                                           !.ups = ups]

\* A loop that never looks at the `initial` tag.
MarkedInitialIgnored(upDef) == FALSE

\* if (upDef.initial)
MarkedInitial(upDef) == upDef.initial

RECURSIVE Migrate(_, _, _, _)

\* The migration loop of safeParse, from the iteration at version `up` on,
\* and its return; `ups` lists the versions whose `up` already ran.
Migrate(entity, up, finalData, ups) ==
  IF ~LoopCond(up, entity.latestVersion)
  THEN [Result("ok", "none") EXCEPT !.value = finalData, !.ups = ups]
  ELSE IF ~HasVersion(entity.versionMap, up)
  THEN NoIntermediateFound(up, ups)
  ELSE LET upDef == entity.versionMap[up]
       IN  IF MarkedInitial(upDef)
           THEN IntermediateMarkedInitial(up, ups)
           ELSE Migrate(entity, NextUp(up), Up(upDef, finalData), Append(ups, up))

\* A validation failure reported as an unknown version.
GivenVerReportedInvalid(ver, verDef) == Result("err", "INVALID_VER")

\* { type: "err", error: { type: "GIVEN_VER_VALIDATION_FAIL", version: ver,
\*   versionDef: verDef, error: pass.error } }
GivenVerValidationFail(ver, verDef) ==
  [Result("err", "GIVEN_VER_VALIDATION_FAIL") EXCEPT !.version = {ver},
                                                     !.versionDef = <<verDef>>]

\* let finalData = pass.data
Validated(pass, data) == pass.data

\* A safeParse that validates the migrated payload against the latest
\* schema before returning it.
SafeParseRevalidating(entity, data) ==
  LET ver == GetVersion(entity.getVersion, data)
  IN  IF ver.kind = "throws"
      THEN [Result("throw", "none") EXCEPT !.resolved = <<ver>>]
      ELSE IF ver = Null
      THEN [Result("err", "VER_CHECK_FAIL") EXCEPT !.resolved = <<ver>>]
      ELSE IF ~Defined(entity.versionMap, ver)
      THEN [Result("err", "INVALID_VER") EXCEPT !.resolved = <<ver>>]
      ELSE LET n == ver.n
               verDef == entity.versionMap[n]
               latestDef == entity.versionMap[entity.latestVersion]
               pass == SchemaSafeParse(verDef.schema, data)
               migrated == Migrate(entity, FirstUp(n), Validated(pass, data), <<>>)
               again == SchemaSafeParse(latestDef.schema, migrated.value)
           IN  IF pass.thrown
               THEN [Result("throw", "none") EXCEPT
                       !.resolved = <<ver>>, !.validated = <<n>>,
                       !.refUps = pass.refUps]
               ELSE IF ~pass.success
               THEN [GivenVerValidationFail(n, verDef) EXCEPT
                       !.resolved = <<ver>>, !.validated = <<n>>,
                       !.refUps = pass.refUps]
               ELSE IF migrated.type = "ok" /\ ~again.success
               THEN [GivenVerValidationFail(entity.latestVersion, latestDef)
                       EXCEPT !.resolved = <<ver>>,
                              !.validated = <<n, entity.latestVersion>>,
                              !.ups = migrated.ups,
                              !.refUps = pass.refUps]
               ELSE [migrated EXCEPT
                       !.resolved = <<ver>>,
                       !.validated = IF migrated.type = "ok"
                                     THEN <<n, entity.latestVersion>>
                                     ELSE <<n>>,
                       !.refUps = pass.refUps]

\* safeParse from `if (!pass.success)` on, where `pass` is what the schema
\* of the resolved version made of the value.
Migrated(entity, ver, pass, data) ==
  [ (IF pass.thrown
     THEN Result("throw", "none")
     ELSE IF ~pass.success
     THEN GivenVerValidationFail(ver.n, entity.versionMap[ver.n])
     ELSE Migrate(entity, FirstUp(ver.n), Validated(pass, data), <<>>))
    EXCEPT !.resolved = <<ver>>,
           !.validated = <<ver.n>>,
           !.refUps = pass.refUps ]

\* VersionedEntity.safeParse
SafeParse(entity, data) ==
  LET ver == GetVersion(entity.getVersion, data)
  IN  IF ver.kind = "throws"
      THEN [Result("throw", "none") EXCEPT !.resolved = <<ver>>]
      ELSE IF ver = Null
      THEN [Result("err", "VER_CHECK_FAIL") EXCEPT !.resolved = <<ver>>]
      ELSE IF ~Defined(entity.versionMap, ver)
      THEN [Result("err", "INVALID_VER") EXCEPT !.resolved = <<ver>>]
      ELSE Migrated(entity, ver,
                    SchemaSafeParse(entity.versionMap[ver.n].schema, data),
                    data)

\* .transform((data) => ...), where parseResult is entity.safeParse(data):
\* throws unless it is ok, else returns parseResult.value.
Transform(parseResult) ==
  (IF parseResult.type # "ok"
   THEN [Thrown EXCEPT !.refUps = parseResult.ups]
   ELSE Accept(parseResult.value, parseResult.ups))
    @@ [transformed |-> TRUE]

\* z.custom((data) => entity.is(data)) followed by a transform, where member
\* is entity.is(data) and out what the transform makes of the value: the
\* transform runs only for a value the check accepted.
Custom(member, out) ==
  IF member.result = "throw"
  THEN Thrown @@ [transformed |-> FALSE]
  ELSE IF member.result = "false"
  THEN Reject @@ [transformed |-> FALSE]
  ELSE out

\* A reference that turns a failed migration into an ordinary rejection.
EntityReferenceForgiving(entity, value) ==
  LET member == Is(entity, value)
  IN  IF member.result = "throw"
      THEN Thrown @@ [transformed |-> FALSE]
      ELSE IF member.result = "false"
      THEN Reject @@ [transformed |-> FALSE]
      ELSE LET parseResult == SafeParse(entity, value)
           IN  IF parseResult.type # "ok"
               THEN [Reject EXCEPT !.refUps = parseResult.ups]
                      @@ [transformed |-> TRUE]
               ELSE Accept(parseResult.value, parseResult.ups)
                      @@ [transformed |-> TRUE]

\* A reference that validates but hands on the raw value.
EntityReferenceUnmigrated(entity, value) ==
  LET member == Is(entity, value)
  IN  IF member.result = "throw"
      THEN Thrown @@ [transformed |-> FALSE]
      ELSE IF member.result = "false"
      THEN Reject @@ [transformed |-> FALSE]
      ELSE Accept(value, <<>>) @@ [transformed |-> FALSE]

\* entityReference(entity) applied to a value: the custom check entity.is,
\* then (only for a value the check accepted) the transform, which calls
\* entity.safeParse and throws unless it is ok.  `transformed` tells
\* whether the transform ran; refUps lists the upgrades entity.safeParse
\* ran, also when it then failed.
EntityReference(entity, value) ==
  Custom(Is(entity, value), Transform(SafeParse(entity, value)))

\* The field of the schema holds what the schema asks for: a number for
\* z.number(), the string "b" for z.literal("b").
FieldPasses(schema, data) ==
  IF schema.type = "number"
  THEN schema.field \in data.fields
  ELSE schema.field \in data.strs

\* z.object({...}) on an object, where ref is what the reference under
\* `child` made of that key (an acceptance of nothing for a schema without
\* one): an exception of the reference leaves the parse; the value is
\* accepted when `v`, the number field and the reference all pass, and its
\* output holds the declared keys, with the reference's output as `child`.
ZodObject(schema, data, ref) ==
  IF ref.thrown
  THEN [Thrown EXCEPT !.refUps = ref.refUps]
  ELSE IF data.v = {schema.v} /\ FieldPasses(schema, data) /\ ref.success
  THEN Accept(IF schema.type = "number"
              THEN Obj(data.v, {schema.field}, data.val,
                       IF schema.ref = "none" THEN <<>> ELSE <<ref.data>>)
              ELSE Lit(data.v, {schema.field}),
              ref.refUps)
  ELSE [Reject EXCEPT !.refUps = ref.refUps]

\* An object schema that checks the referenced entity but keeps the raw
\* value under `child`.
SchemaSafeParseKeepingChild(schema, data) ==
  IF ~data.obj
  THEN Reject
  ELSE LET pass == ZodObject(schema, data,
                     IF schema.ref = "none"
                     THEN Accept(NoData, <<>>) @@ [transformed |-> FALSE]
                     ELSE EntityReference(ReferencedEntity(schema.ref),
                                          ChildOf(data)))
       IN  IF pass.success /\ schema.ref # "none"
           THEN [pass EXCEPT !.data.child = data.child]
           ELSE pass

\* schema.safeParse(data) of a z.object schema: a non-object is rejected
\* before any key is looked at; otherwise every declared key is parsed
\* (so a reference under `child` runs, and may throw, whatever the other
\* keys hold), the failures are collected, unknown keys are dropped from
\* the output, and a referenced entity is replaced by its migrated value.
SchemaSafeParse(schema, data) ==
  IF ~data.obj
  THEN Reject
  ELSE ZodObject(schema, data,
                 IF schema.ref = "none"
                 THEN Accept(NoData, <<>>) @@ [transformed |-> FALSE]
                 ELSE EntityReference(ReferencedEntity(schema.ref), ChildOf(data)))

----------------------------------------------------------------------------
(* The entity under test and the calls made on it.                         *)

VARIABLES
  versionMap,     \* private versionMap: version number -> version definition
  latestVersion,  \* private latestVersion
  getVersion,     \* private getVersion (the resolver)
  data,           \* the value the calls are made on
  isResult,       \* <<outcome of is(data)>>, <<>> before the call
  isLatestResult, \* <<outcome of isLatest(data)>>, <<>> before the call
  parseResult,    \* <<outcome of safeParse(data)>>, <<>> before the call
  refResult,      \* <<outcome of entityReference(entity) on data>>, or <<>>
  calls           \* the calls in progress, by caller (concurrent use)

vars == <<versionMap, latestVersion, getVersion, data,
          isResult, isLatestResult, parseResult, refResult, calls>>

\* `this` of the calls.
Entity == CreateVersionedEntity(versionMap, latestVersion, getVersion)

\* The version maps of the model: every key of 1..MaxVer is absent, defined
\* as initial or defined with an upgrade; the schema of key k is
\* ObjectSchema(k, ref) and every upgrade is the function `up`.
VersionMaps(up, ref) ==
  { [k \in {j \in 1..MaxVer : tag[j] # "absent"} |->
       IF tag[k] = "initial"
       THEN InitialVersion(ObjectSchema(k, ref))
       ELSE UpgradeVersion(ObjectSchema(k, ref), up)] :
    tag \in [1..MaxVer -> {"absent", "initial", "upgrade"}] }

\* The entity definitions of the model, as <<getVersion, up, ref>>: the
\* resolver, the upgrade functions and the entity its schemas reference.
Definitions ==
  { <<"v", "conform", "none">>, <<"first", "conform", "none">>,
    <<"never", "conform", "none">>, <<"v", "identity", "none">>,
    <<"v", "conform", "child">>, <<"v", "conform", "gap">> }

\* Values of a `child` key: a version 1 and a version 2 payload of
\* migrateChildVersioned, an object without `v`, and a version 1 and a
\* version 3 payload of the entity with the gap ({ v, a: "b" }).
Children ==
  { Obj({1}, {"a"}, 8, <<>>), Obj({2}, {"b"}, 8, <<>>), Obj({}, {"a"}, 8, <<>>),
    Lit({1}, {"a"}), Lit({3}, {"a"}) }

\* The values the calls are made on: a non-object, and objects with or
\* without a numeric `v`, with one or both of the fields and (for schemas
\* that reference an entity) with or without a `child`.
Inputs(ref) ==
  {NoData} \cup
  { Obj(v, fields, 5, child) :
      v \in {{}} \cup {{t} : t \in Tags},
      fields \in {{"a"}, {"b"}, {"a", "b"}},
      child \in {<<>>} \cup (IF ref = "none" THEN {} ELSE {<<c>> : c \in Children}) }

\* The callers that may use one entity at the same time.
Callers == {"c1", "c2"}

\* A caller that is not in a call.
Idle ==
  [pc |-> "idle", op |-> "none", data |-> NoData, ver |-> Null, up |-> 0,
   finalData |-> NoData, ups |-> <<>>, result |-> <<>>]

\* No caller is in a call.
NoCallers == [c \in Callers |-> Idle]

\* The schemas of an entity all reference the same entity (or none).
RefOf(map) == map[CHOOSE k \in DOMAIN map : TRUE].schema.ref

\* State after createVersionedEntity(def): latestVersion is a key of
\* versionMap (the type Record<LatestVer, ...> requires it); no call yet.
Init ==
  /\ \E def \in Definitions :
       /\ getVersion = def[1]
       /\ versionMap \in VersionMaps(def[2], def[3]) \ {<<>>}
       /\ data \in Inputs(def[3])
  /\ latestVersion \in DOMAIN versionMap
  /\ isResult = <<>>
  /\ isLatestResult = <<>>
  /\ parseResult = <<>>
  /\ refResult = <<>>
  /\ calls = NoCallers

\* entity.is(data)
CallIs ==
  /\ isResult = <<>>
  /\ isResult' = <<Is(Entity, data)>>
  /\ UNCHANGED <<versionMap, latestVersion, getVersion, data,
                 isLatestResult, parseResult, refResult, calls>>

\* entity.isLatest(data)
CallIsLatest ==
  /\ isLatestResult = <<>>
  /\ isLatestResult' = <<IsLatest(Entity, data)>>
  /\ UNCHANGED <<versionMap, latestVersion, getVersion, data,
                 isResult, parseResult, refResult, calls>>

\* entity.safeParse(data)
CallSafeParse ==
  /\ parseResult = <<>>
  /\ parseResult' = <<SafeParse(Entity, data)>>
  /\ UNCHANGED <<versionMap, latestVersion, getVersion, data,
                 isResult, isLatestResult, refResult, calls>>

\* The caller, done with a value, moves on to another one.
NextInput ==
  /\ isResult # <<>> /\ isLatestResult # <<>> /\ parseResult # <<>>
  /\ \E d \in Inputs(RefOf(versionMap)) : data' = d
  /\ isResult' = <<>>
  /\ isLatestResult' = <<>>
  /\ parseResult' = <<>>
  /\ UNCHANGED <<versionMap, latestVersion, getVersion, refResult, calls>>

Next == CallIs \/ CallIsLatest \/ CallSafeParse \/ NextInput

Spec == Init /\ [][Next]_vars

----------------------------------------------------------------------------
(* The entity used as a field of a larger schema.                          *)

\* entityReference(entity).safeParse(data)
CallReference ==
  /\ refResult = <<>>
  /\ refResult' = <<EntityReference(Entity, data)>>
  /\ UNCHANGED <<versionMap, latestVersion, getVersion, data,
                 isResult, isLatestResult, parseResult, calls>>

NextRef == CallIs \/ CallSafeParse \/ CallReference

\* The entity is checked directly and through a reference to it.
SpecRef == Init /\ [][NextRef]_vars


----------------------------------------------------------------------------
(* Several callers using one entity at the same time.  A call advances in  *)
(* steps (resolve, validate, one loop iteration at a time) and the steps   *)
(* of different calls interleave freely.  Every call works on its own      *)
(* locals (ver, up, finalData) and reads the entity's fields.              *)

\* The values the concurrent callers pass: a non-object, a value every
\* version accepts once `v` matches, and a value version 1 rejects.
ConcurrentInputs ==
  {NoData, Obj({1}, {"b"}, 5, <<>>)} \cup
  { Obj({t}, {"a", "b"}, 5, <<>>) : t \in 1..MaxVer }

\* Locals kept in one place for all calls (as fields of the entity would
\* be): a caller reads what another call at the same point last wrote.
SharedFrame(c) ==
  IF \E x \in Callers \ {c} : calls[x].pc = calls[c].pc
  THEN calls[CHOOSE x \in Callers \ {c} : calls[x].pc = calls[c].pc]
  ELSE calls[c]

\* The locals of caller c's call.
Frame(c) == calls[c]

\* The call of caller c returns r.
Return(c, r) == [calls EXCEPT ![c].pc = "done", ![c].result = <<r>>]

\* State after construction, for concurrent use.
InitConcurrent ==
  /\ getVersion = "v"
  /\ versionMap \in VersionMaps("conform", "none") \ {<<>>}
  /\ latestVersion \in DOMAIN versionMap
  /\ data = NoData
  /\ isResult = <<>>
  /\ isLatestResult = <<>>
  /\ parseResult = <<>>
  /\ refResult = <<>>
  /\ calls = NoCallers

\* Caller c enters is(d), isLatest(d) or safeParse(d).
Begin(c) ==
  /\ calls[c].pc = "idle"
  /\ \E op \in {"is", "isLatest", "safeParse"} : \E d \in ConcurrentInputs :
       calls' = [calls EXCEPT ![c].op = op, ![c].data = d,
                              ![c].pc = IF op = "isLatest" THEN "latest"
                                        ELSE "resolve"]
  /\ UNCHANGED <<versionMap, latestVersion, getVersion, data,
                 isResult, isLatestResult, parseResult, refResult>>

\* is / safeParse: getVersion(data), the null check and the lookup
\* versionMap[ver].
Resolve(c) ==
  /\ calls[c].pc = "resolve"
  /\ LET ver == GetVersion(getVersion, Frame(c).data)
         log == [NoCalls EXCEPT !.resolved = <<ver>>]
     IN  calls' =
           IF ver.kind = "throws"
           THEN Return(c, IF calls[c].op = "is"
                          THEN [result |-> "throw"] @@ log
                          ELSE [Result("throw", "none")
                                  EXCEPT !.resolved = <<ver>>])
           ELSE IF ver = Null
           THEN Return(c, IF calls[c].op = "is"
                          THEN [result |-> "false"] @@ log
                          ELSE [Result("err", "VER_CHECK_FAIL")
                                  EXCEPT !.resolved = <<ver>>])
           ELSE IF ~Defined(versionMap, ver)
           THEN Return(c, IF calls[c].op = "is"
                          THEN [result |-> "false"] @@ log
                          ELSE [Result("err", "INVALID_VER")
                                  EXCEPT !.resolved = <<ver>>])
           ELSE [calls EXCEPT ![c].ver = ver, ![c].pc = "validate"]
  /\ UNCHANGED <<versionMap, latestVersion, getVersion, data,
                 isResult, isLatestResult, parseResult, refResult>>

\* What follows from pass, the outcome of verDef.schema.safeParse(data):
\* is returns its success; safeParse returns the validation failure or
\* enters the loop with finalData = pass.data and up = ver + 1.
Checked(c, f, pass) ==
  IF calls[c].op = "is"
  THEN Return(c, Success([NoCalls EXCEPT !.resolved = <<f.ver>>], f.ver.n, pass))
  ELSE IF pass.thrown \/ ~pass.success
  THEN Return(c, Migrated(Entity, f.ver, pass, f.data))
  ELSE [calls EXCEPT ![c].finalData = Validated(pass, f.data),
                     ![c].up = FirstUp(f.ver.n),
                     ![c].pc = "loop"]

\* is / safeParse: verDef.schema.safeParse(data) and what follows from it.
Validate(c) ==
  /\ calls[c].pc = "validate"
  /\ calls' = Checked(c, Frame(c),
                      SchemaSafeParse(versionMap[Frame(c).ver.n].schema,
                                      Frame(c).data))
  /\ UNCHANGED <<versionMap, latestVersion, getVersion, data,
                 isResult, isLatestResult, parseResult, refResult>>

\* isLatest: versionMap[latestVersion].schema.safeParse(data).success
ValidateLatest(c) ==
  /\ calls[c].pc = "latest"
  /\ calls' = Return(c, IsLatest(Entity, Frame(c).data))
  /\ UNCHANGED <<versionMap, latestVersion, getVersion, data,
                 isResult, isLatestResult, parseResult, refResult>>

\* safeParse: one iteration of the migration loop, or the return after it.
Loop(c) ==
  /\ calls[c].pc = "loop"
  /\ LET f == Frame(c)
         n == f.ver.n
         log(r) == [r EXCEPT !.resolved = <<f.ver>>, !.validated = <<n>>]
     IN  calls' =
           IF ~LoopCond(f.up, latestVersion)
           THEN Return(c, log([Result("ok", "none") EXCEPT
                                 !.value = f.finalData, !.ups = f.ups]))
           ELSE IF ~HasVersion(versionMap, f.up)
           THEN Return(c, log(NoIntermediateFound(f.up, f.ups)))
           ELSE IF MarkedInitial(versionMap[f.up])
           THEN Return(c, log(IntermediateMarkedInitial(f.up, f.ups)))
           ELSE [calls EXCEPT ![c].finalData = Up(versionMap[f.up], f.finalData),
                              ![c].ups = Append(f.ups, f.up),
                              ![c].up = NextUp(f.up)]
  /\ UNCHANGED <<versionMap, latestVersion, getVersion, data,
                 isResult, isLatestResult, parseResult, refResult>>

NextConcurrent ==
  \E c \in Callers :
    \/ Begin(c)
    \/ Resolve(c)
    \/ Validate(c)
    \/ ValidateLatest(c)
    \/ Loop(c)

SpecConcurrent == InitConcurrent /\ [][NextConcurrent]_vars

----------------------------------------------------------------------------
(* Vocabulary of the properties.                                           *)

\* The version number the resolver returns for the current value, {} when
\* it returns none.
Resolved ==
  IF GetVersion(getVersion, data).kind = "number"
  THEN {GetVersion(getVersion, data).n}
  ELSE {}

\* The resolved version is a key of the version map.
Recognized == \E k \in Resolved : k \in DOMAIN versionMap

\* The outcome of version k's validator on the current value.
PassAt(k) == SchemaSafeParse(versionMap[k].schema, data)

\* The resolved version is a key and its validator accepts the value.
ValidAtResolved == \E k \in Resolved : k \in DOMAIN versionMap /\ PassAt(k).success

\* Version j is defined and carries an upgrade.
Upgradeable(j) == j \in DOMAIN versionMap /\ ~versionMap[j].initial

\* The versions lo, lo+1, ..., hi in increasing order.
Ascending(lo, hi) == [i \in 1..(hi - lo + 1) |-> lo + i - 1]

RECURSIVE UpgradedThrough(_, _, _)
\* The upgrades of versions lo..hi applied one after the other to d.
UpgradedThrough(lo, hi, d) ==
  IF lo > hi THEN d ELSE UpgradedThrough(lo + 1, hi, Up(versionMap[lo], d))

\* The results of the calls made so far on the current value.
ParseDone == parseResult # <<>>
Parsed == parseResult[1]
IsDone == isResult # <<>>
IsLatestDone == isLatestResult # <<>>

\* The five error kinds of ParseResult.
ErrorKinds ==
  {"VER_CHECK_FAIL", "INVALID_VER", "GIVEN_VER_VALIDATION_FAIL",
   "BUG_NO_INTERMEDIATE_FOUND", "BUG_INTERMEDIATE_MARKED_INITIAL"}

\* Versions 1..N are all defined, 1 as initial and 2..N with upgrades, and
\* N is the latest version.
ContiguousRegistry ==
  /\ DOMAIN versionMap = 1..latestVersion
  /\ versionMap[1].initial
  /\ \A j \in 2..latestVersion : ~versionMap[j].initial

----------------------------------------------------------------------------
\* C1  Monotonic migration: on a registry with contiguous versions 1..N
\* (1 initial, 2..N upgradeable, latest N), safeParse of a value that
\* resolves to version k and passes k's validator runs exactly the upgrades
\* of k+1, k+2, ..., N, in that order, each once and each on the previous
\* step's result, and returns Success.
C1_MonotonicMigration ==
  (ParseDone /\ ContiguousRegistry /\ ValidAtResolved) =>
    \A k \in Resolved :
      /\ Parsed.type = "ok"
      /\ Len(Parsed.ups) = latestVersion - k
      /\ Parsed.ups = Ascending(k + 1, latestVersion)
      /\ Parsed.value = UpgradedThrough(k + 1, latestVersion, PassAt(k).data)

\* A version 1 value was migrated through two upgrades.
C1_Witness ==
  /\ ParseDone /\ ContiguousRegistry /\ ValidAtResolved
  /\ latestVersion = 3 /\ Resolved = {1}
  /\ Parsed.type = "ok" /\ Parsed.ups = <<2, 3>>

----------------------------------------------------------------------------
\* C2 as claimed  Agreement law: for every entity and every value, is(x)
\* true implies safeParse(x) is Success.
C2_AgreementLaw ==
  (IsDone /\ ParseDone /\ isResult[1].result = "true") => Parsed.type = "ok"

\* C2 as amended  When is(x) is true, safeParse(x) is Success exactly when
\* every version from the resolved version + 1 to the latest version is
\* defined with an upgrade; otherwise it is one of the two definition
\* errors (BUG_NO_INTERMEDIATE_FOUND, BUG_INTERMEDIATE_MARKED_INITIAL).
C2_AgreementOnSoundRegistry ==
  (IsDone /\ ParseDone /\ isResult[1].result = "true") =>
    \A k \in Resolved :
      /\ Parsed.type = "ok" <=> \A j \in (k + 1)..latestVersion : Upgradeable(j)
      /\ Parsed.type # "ok" =>
           /\ Parsed.type = "err"
           /\ Parsed.error \in {"BUG_NO_INTERMEDIATE_FOUND",
                                 "BUG_INTERMEDIATE_MARKED_INITIAL"}

\* is and safeParse agreed on a value that needed two upgrades.
C2_Witness ==
  /\ IsDone /\ ParseDone /\ isResult[1].result = "true"
  /\ Parsed.type = "ok" /\ Len(Parsed.ups) = 2

----------------------------------------------------------------------------
\* C3  Gap detection: if version m (1 < m < latest) is missing, and a value
\* resolves to k < m, passes k's validator, and every version strictly
\* between k and m is defined with an upgrade, then safeParse fails with
\* BUG_NO_INTERMEDIATE_FOUND, missingVer = m, and ran no upgrade of any
\* version >= m.
C3_GapDetection ==
  ParseDone =>
    \A m \in 2..(latestVersion - 1) : \A k \in Resolved :
      ( /\ m \notin DOMAIN versionMap
        /\ k < m
        /\ ValidAtResolved
        /\ \A j \in (k + 1)..(m - 1) : Upgradeable(j) ) =>
      /\ Parsed.type = "err"
      /\ Parsed.error = "BUG_NO_INTERMEDIATE_FOUND"
      /\ Parsed.missingVer = {m}
      /\ \A i \in 1..Len(Parsed.ups) : Parsed.ups[i] < m

\* A valid version 1 value stopped at the missing version 2, below latest 3.
C3_Witness ==
  /\ ParseDone /\ ValidAtResolved /\ Resolved = {1}
  /\ 2 \notin DOMAIN versionMap /\ latestVersion = 3
  /\ Parsed.error = "BUG_NO_INTERMEDIATE_FOUND"
  /\ Parsed.missingVer = {2} /\ Parsed.ups = <<>>

----------------------------------------------------------------------------
\* C4  Mismarked-initial detection: if the walk from the resolved version k
\* reaches a version c <= latest that is tagged initial (the value passed
\* k's validator and every version strictly between k and c is defined with
\* an upgrade), then safeParse fails with BUG_INTERMEDIATE_MARKED_INITIAL,
\* ver = c, and ran no upgrade of c or of any later version.
C4_MarkedInitialDetection ==
  ParseDone =>
    \A c \in DOMAIN versionMap : \A k \in Resolved :
      ( /\ k < c /\ c <= latestVersion
        /\ versionMap[c].initial
        /\ ValidAtResolved
        /\ \A j \in (k + 1)..(c - 1) : Upgradeable(j) ) =>
      /\ Parsed.type = "err"
      /\ Parsed.error = "BUG_INTERMEDIATE_MARKED_INITIAL"
      /\ Parsed.ver = {c}
      /\ \A i \in 1..Len(Parsed.ups) : Parsed.ups[i] < c

\* A version 1 value was upgraded to 2 and then stopped at 3, tagged initial.
C4_Witness ==
  /\ ParseDone /\ ValidAtResolved /\ Resolved = {1}
  /\ 3 \in DOMAIN versionMap /\ versionMap[3].initial /\ latestVersion >= 3
  /\ Parsed.error = "BUG_INTERMEDIATE_MARKED_INITIAL"
  /\ Parsed.ver = {3} /\ Parsed.ups = <<2>>

----------------------------------------------------------------------------
\* C5  Caller-data errors of safeParse: the outcome is VER_CHECK_FAIL exactly
\* when the resolver returns null; INVALID_VER exactly when it returns a
\* number (zero and negatives included) that is no key of the version map;
\* GIVEN_VER_VALIDATION_FAIL exactly when the resolved version is a key and
\* its validator rejects the value, and then it carries that version and
\* its definition.  None of the three comes after an upgrade.
C5_CallerDataErrors ==
  ParseDone =>
    /\ (Parsed.type = "err" /\ Parsed.error = "VER_CHECK_FAIL") <=> Resolved = {}
    /\ (Parsed.type = "err" /\ Parsed.error = "INVALID_VER")
          <=> (Resolved # {} /\ ~Recognized)
    /\ (Parsed.type = "err" /\ Parsed.error = "GIVEN_VER_VALIDATION_FAIL")
          <=> \E k \in Resolved :
                /\ k \in DOMAIN versionMap
                /\ ~PassAt(k).success /\ ~PassAt(k).thrown
    /\ Parsed.error = "GIVEN_VER_VALIDATION_FAIL" =>
          /\ Parsed.version = Resolved
          /\ \A k \in Resolved : Parsed.versionDef = <<versionMap[k]>>
    /\ Parsed.error \in {"VER_CHECK_FAIL", "INVALID_VER",
                          "GIVEN_VER_VALIDATION_FAIL"} => Parsed.ups = <<>>

\* A value of a known, later-migrated version was rejected by that
\* version's validator.
C5_Witness ==
  /\ ParseDone /\ Parsed.error = "GIVEN_VER_VALIDATION_FAIL"
  /\ Parsed.version = {1} /\ latestVersion > 1

\* A value whose `v` is a negative number was refused as an unknown version.
C5_WitnessInvalidVer ==
  /\ ParseDone /\ Parsed.error = "INVALID_VER"
  /\ \E k \in Resolved : k < 0

----------------------------------------------------------------------------
\* C6 as claimed  Idempotence at latest: for every entity and every value p
\* with isLatest(p) true, safeParse(p) is Success with a value structurally
\* equal to p and no upgrade call.
C6_IdempotentAtLatest ==
  (IsLatestDone /\ ParseDone /\ isLatestResult[1].result = "true") =>
    /\ Parsed.type = "ok"
    /\ Parsed.value = data
    /\ Parsed.ups = <<>>

\* C6 as amended  For every value p that the resolver maps to the latest
\* version and the latest validator accepts, safeParse(p) is Success with
\* no upgrade call, and its value is the validator's output for p: p
\* without the keys the schema does not declare and with a referenced
\* entity migrated, hence equal to p when p has only the declared keys
\* and no referenced entity below its own latest version.
C6_IdempotentWhenResolvedLatest ==
  ( /\ IsLatestDone /\ ParseDone
    /\ isLatestResult[1].result = "true"
    /\ Resolved = {latestVersion} ) =>
    /\ Parsed.type = "ok"
    /\ Parsed.ups = <<>>
    /\ Parsed.value = PassAt(latestVersion).data
    /\ Parsed.value.v = data.v
    /\ Parsed.value.val = data.val
    /\ Parsed.value.fields \subseteq data.fields
    /\ ( /\ data.fields = {versionMap[latestVersion].schema.field}
         /\ Parsed.refUps = <<>>
         /\ (versionMap[latestVersion].schema.ref = "none" => data.child = <<>>) )
         => Parsed.value = data

\* A value already of the latest version 3, of a registry with upgrades,
\* came back unchanged.
C6_Witness ==
  /\ IsLatestDone /\ ParseDone /\ isLatestResult[1].result = "true"
  /\ Resolved = {latestVersion} /\ latestVersion = 3 /\ Upgradeable(3)
  /\ Parsed.type = "ok" /\ Parsed.value = data

----------------------------------------------------------------------------
\* The version the returned payload is at: the last version whose upgrade
\* ran, or the resolved version when none ran.
ReachedVersion ==
  IF Parsed.ups = <<>> THEN Resolved ELSE {Parsed.ups[Len(Parsed.ups)]}

\* C7  Success means latest: whenever safeParse returns Success, the
\* returned payload is at the latest version (the walk ended at
\* latestVersion, never at a lower or higher version of the version map).
C7_SuccessMeansLatest ==
  (ParseDone /\ Parsed.type = "ok") => ReachedVersion = {latestVersion}

----------------------------------------------------------------------------
\* C8 as claimed  Every safeParse call ends by returning Success or exactly
\* one of the five error kinds as a value, and never in a thrown exception.
C8_AlwaysReturnsData ==
  ParseDone =>
    \/ Parsed.type = "ok" /\ Parsed.error = "none"
    \/ Parsed.type = "err" /\ Parsed.error \in ErrorKinds

\* C8 as amended  Every safeParse call ends by returning Success or exactly
\* one of the five error kinds as a value, except that an exception thrown
\* by the resolved version's validator (the entityReference transform, when
\* the referenced entity's `is` and `safeParse` disagree, or the referenced
\* entity's resolver) leaves safeParse as that exception; safeParse ends in
\* an exception in no other case.
C8_ReturnsDataUnlessValidatorThrows ==
  ParseDone =>
    /\ \/ Parsed.type = "ok" /\ Parsed.error = "none"
       \/ Parsed.type = "err" /\ Parsed.error \in ErrorKinds
       \/ Parsed.type = "throw" /\ Parsed.error = "none"
    /\ Parsed.type = "throw" <=>
         \E k \in Resolved : k \in DOMAIN versionMap /\ PassAt(k).thrown

\* A call that hit a gap of the version map returned the error as data.
C8_Witness ==
  /\ ParseDone /\ Parsed.type = "err"
  /\ Parsed.error = "BUG_NO_INTERMEDIATE_FOUND"

\* A call ended in the exception of a reference to an entity with a gap.
C8_WitnessThrown ==
  /\ ParseDone /\ Parsed.type = "throw"
  /\ \E k \in Resolved : versionMap[k].schema.ref = "gap"

----------------------------------------------------------------------------
\* C9 as claimed  is(x) is true exactly when the resolver yields a number
\* that is a key of the version map and that version's validator accepts
\* x, and false in every other case; is invokes no upgrade function and
\* looks at no version but the resolved one.
C9_MembershipTest ==
  IsDone =>
    /\ isResult[1].result = "true" <=> ValidAtResolved
    /\ ~ValidAtResolved => isResult[1].result = "false"
    /\ isResult[1].ups = <<>> /\ isResult[1].refUps = <<>>
    /\ \A i \in 1..Len(isResult[1].validated) : isResult[1].validated[i] \in Resolved

\* The resolver keeps its declared type on the current value: it returns
\* a number or null, and does not throw.
TypedResolver == GetVersion(getVersion, data).kind \in {"null", "number"}

\* The validator of the resolved version ends in an exception.
ValidatorThrows ==
  \E k \in Resolved : k \in DOMAIN versionMap /\ PassAt(k).thrown

\* C9 as amended  For a resolver that keeps its declared type (a number
\* or null, no exception): is(x) is true exactly when the resolver yields a
\* number that is a key of the version map and that version's validator
\* accepts x; it ends in an exception exactly when that validator throws
\* (the entityReference transform of an entity whose `is` and `safeParse`
\* disagree, or the referenced entity's resolver); in every other case it
\* is false.  is invokes no upgrade function of its own entity (an
\* entityReference inside the validator migrates the referenced entity) and
\* looks at no version but the resolved one.
C9_MembershipTestUnlessValidatorThrows ==
  (IsDone /\ TypedResolver) =>
    /\ isResult[1].result = "true" <=> ValidAtResolved
    /\ isResult[1].result = "throw" <=> ValidatorThrows
    /\ isResult[1].result = "false" <=> (~ValidAtResolved /\ ~ValidatorThrows)
    /\ isResult[1].ups = <<>>
    /\ \A i \in 1..Len(isResult[1].validated) : isResult[1].validated[i] \in Resolved
    /\ Len(isResult[1].validated) <= 1

\* is accepted a version 1 value of an entity whose latest version is 3.
C9_Witness ==
  /\ IsDone /\ isResult[1].result = "true"
  /\ Resolved = {1} /\ latestVersion = 3 /\ isResult[1].validated = <<1>>

\* is refused a value that the latest validator accepts but the resolver
\* maps to an older version.
C9_WitnessFalse ==
  /\ IsDone /\ isResult[1].result = "false" /\ Recognized
  /\ PassAt(latestVersion).success

\* is ended in the exception of a reference inside the resolved version's
\* validator.
C9_WitnessValidatorThrows ==
  /\ IsDone /\ isResult[1].result = "throw" /\ TypedResolver
  /\ ValidatorThrows

----------------------------------------------------------------------------
\* The resolvers of the model.
Resolvers == {"v", "first", "never"}

\* C10  Latest-only test: isLatest(x) is the outcome of the latest
\* version's validator on x and never consults the resolver: the entities
\* that differ from this one only in the resolver give the same answer on
\* x, whatever their resolver makes of x.
C10_LatestOnly ==
  IsLatestDone =>
    /\ isLatestResult[1].result = "true" <=> PassAt(latestVersion).success
    /\ isLatestResult[1].result = "throw" <=> PassAt(latestVersion).thrown
    /\ isLatestResult[1].resolved = <<>>
    /\ isLatestResult[1].validated = <<latestVersion>>
    /\ \A g \in Resolvers :
         IsLatest(CreateVersionedEntity(versionMap, latestVersion, g), data).result
           = isLatestResult[1].result

\* isLatest accepted a value that the resolver cannot place at all.
C10_Witness ==
  /\ IsLatestDone /\ isLatestResult[1].result = "true" /\ Resolved = {}

\* isLatest accepted a value that the resolver places at an older version.
C10_WitnessOtherVersion ==
  /\ IsLatestDone /\ isLatestResult[1].result = "true"
  /\ \E k \in Resolved : k < latestVersion

----------------------------------------------------------------------------
\* The outcome of the reference to the entity on the current value.
RefDone == refResult # <<>>
Referenced == refResult[1]

\* C11  Reference invariant handling: when a value passes entity.is but
\* entity.safeParse on it fails, the reference ends in a thrown error
\* (after the upgrades safeParse ran before it failed), never in an
\* ordinary rejection or an accepted value; when entity.is is false the
\* reference rejects the value in the ordinary way, without calling
\* safeParse (so without any upgrade) and without throwing.
C11_ReferenceInvariantHandling ==
  (RefDone /\ IsDone) =>
    /\ (isResult[1].result = "true" /\ ParseDone /\ Parsed.type = "err") =>
         /\ Referenced.thrown
         /\ ~Referenced.success
         /\ Referenced.transformed
         /\ Referenced.refUps = Parsed.ups
    /\ isResult[1].result = "false" =>
         /\ ~Referenced.thrown
         /\ ~Referenced.success
         /\ ~Referenced.transformed
         /\ Referenced.refUps = <<>>

\* A value that is accepts and safeParse refuses for a gap made the
\* reference throw.
C11_Witness ==
  /\ RefDone /\ IsDone /\ ParseDone
  /\ isResult[1].result = "true"
  /\ Parsed.type = "err" /\ Parsed.error = "BUG_NO_INTERMEDIATE_FOUND"
  /\ Referenced.thrown

\* A value of a known version that its validator rejects was rejected by
\* the reference.
C11_WitnessRejected ==
  /\ RefDone /\ IsDone /\ isResult[1].result = "false" /\ Recognized
  /\ ~Referenced.success /\ ~Referenced.thrown

\* The reference threw at a version wrongly marked initial, after
\* safeParse had run the upgrade of version 2.
C11_WitnessUpgradedThenThrown ==
  /\ RefDone /\ IsDone /\ ParseDone /\ isResult[1].result = "true"
  /\ Parsed.error = "BUG_INTERMEDIATE_MARKED_INITIAL"
  /\ Referenced.thrown /\ Referenced.refUps = <<2>>

\* A parent payload that its validator rejects for its own fields, after
\* the reference under `child` had migrated the version 1 child.
RejectedAfterChildUpgrade ==
  /\ ParseDone /\ RefOf(versionMap) = "child"
  /\ Parsed.error = "GIVEN_VER_VALIDATION_FAIL" /\ Parsed.refUps = <<2>>

\* A parent payload without `child`, whose reference to the entity with the
\* unchecked resolver ended in that resolver's TypeError.
C8_WitnessThrownByResolver ==
  /\ ParseDone /\ RefOf(versionMap) = "gap" /\ data.child = <<>>
  /\ Parsed.type = "throw"

----------------------------------------------------------------------------
\* C12 as claimed  Reference output: the value an accepting reference puts
\* in the enclosing structure is the Success value of entity.safeParse on
\* the raw value, the value migrated to the latest version; a value already
\* at the latest version is left structurally unchanged and a value of an
\* older version is replaced by its migrated form.
C12_ReferenceOutput ==
  (RefDone /\ ParseDone /\ Referenced.success) =>
    /\ Parsed.type = "ok"
    /\ Referenced.data = Parsed.value
    /\ (IF Parsed.ups = <<>> THEN Resolved
        ELSE {Parsed.ups[Len(Parsed.ups)]}) = {latestVersion}
    /\ Resolved = {latestVersion} => Referenced.data = data
    /\ \A k \in Resolved :
         k < latestVersion =>
           Referenced.data = UpgradedThrough(k + 1, latestVersion, PassAt(k).data)

\* C12 as amended  The value an accepting reference puts in the enclosing
\* structure is the Success value of entity.safeParse on the raw value; a
\* value that resolves to the latest version comes back as the latest
\* validator's output (the value without the keys the schema does not
\* declare, unchanged when it has only declared keys and no referenced
\* entity below its latest version), and a value of an older version is
\* replaced by the result of the upgrades up to the latest version.
C12_ReferenceOutputIsParsedValue ==
  (RefDone /\ ParseDone /\ Referenced.success) =>
    /\ Parsed.type = "ok"
    /\ Referenced.data = Parsed.value
    /\ Referenced.refUps = Parsed.ups
    /\ Resolved = {latestVersion} =>
         /\ Referenced.data = PassAt(latestVersion).data
         /\ ( /\ data.fields = {versionMap[latestVersion].schema.field}
              /\ Parsed.refUps = <<>>
              /\ (versionMap[latestVersion].schema.ref = "none" => data.child = <<>>) )
              => Referenced.data = data
    /\ \A k \in Resolved :
         k < latestVersion =>
           /\ Referenced.data = UpgradedThrough(k + 1, latestVersion, PassAt(k).data)
           /\ Parsed.ups = Ascending(k + 1, latestVersion)

\* A reference accepted a version 1 value and handed on its version 3 form.
C12_Witness ==
  /\ RefDone /\ ParseDone /\ Referenced.success
  /\ Resolved = {1} /\ latestVersion = 3
  /\ Referenced.data.v = {3} /\ Referenced.data # data

\* A reference accepted a value of the latest version and handed it on
\* unchanged.
C12_WitnessUnchanged ==
  /\ RefDone /\ ParseDone /\ Referenced.success
  /\ Resolved = {latestVersion} /\ latestVersion > 1
  /\ Referenced.data = data

----------------------------------------------------------------------------
\* What the child's own safeParse makes of the value under `child`.
ChildParsed == SafeParse(ReferencedEntity("child"), ChildOf(data))

\* C13  Nested composition: for a parent whose every version schema holds a
\* reference to the child entity (both with contiguous, fully defined
\* versions), parsing a parent payload valid at any parent version, with a
\* child valid at any child version, gives the parent at the parent's
\* latest version with its child at the child's latest version; the child
\* is migrated by its reference when the validator of the resolved parent
\* version runs, and the parent's upgrades receive the migrated child and
\* run no child upgrade themselves.
C13_NestedComposition ==
  ( /\ ParseDone /\ ContiguousRegistry /\ ValidAtResolved
    /\ RefOf(versionMap) = "child" ) =>
    \A k \in Resolved :
      /\ Parsed.type = "ok"
      /\ ChildParsed.type = "ok"
      /\ ChildParsed.value.v = {ReferencedEntity("child").latestVersion}
      /\ PassAt(k).data.child = <<ChildParsed.value>>
      /\ Parsed.value =
           Obj({latestVersion}, {FieldOf(latestVersion)}, data.val,
               <<ChildParsed.value>>)
      /\ Parsed.ups = Ascending(k + 1, latestVersion)
      /\ Parsed.refUps = ChildParsed.ups

\* { v: 1, a: 5, child: { v: 1, a: 8 } } became
\* { v: 2, b: 5, child: { v: 2, b: 8 } }.
C13_Witness ==
  /\ ParseDone /\ ContiguousRegistry /\ RefOf(versionMap) = "child"
  /\ latestVersion = 2
  /\ data = Obj({1}, {"a"}, 5, <<Obj({1}, {"a"}, 8, <<>>)>>)
  /\ Parsed.type = "ok"
  /\ Parsed.value = Obj({2}, {"b"}, 5, <<Obj({2}, {"b"}, 8, <<>>)>>)
  /\ Parsed.refUps = <<2>>

----------------------------------------------------------------------------
\* C15  No re-validation during the walk: one safeParse call runs at most
\* one validator of the entity, the resolved version's, on the raw value;
\* the validators of the later versions never run on the intermediate or
\* final payloads, so a value valid at its version whose later versions
\* are all defined with upgrades comes back as Success with the upgrade
\* chain's output, whatever the latest validator would say of it.
C15_NoRevalidation ==
  ParseDone =>
    /\ Len(Parsed.validated) <= 1
    /\ \A i \in 1..Len(Parsed.validated) : Parsed.validated[i] \in Resolved
    /\ \A k \in Resolved :
         (ValidAtResolved /\ \A j \in (k + 1)..latestVersion : Upgradeable(j)) =>
           /\ Parsed.type = "ok"
           /\ Parsed.validated = <<k>>
           /\ Parsed.value = UpgradedThrough(k + 1, latestVersion, PassAt(k).data)

\* safeParse returned, as Success, an upgraded payload that the latest
\* validator rejects.
C15_Witness ==
  /\ ParseDone /\ Parsed.type = "ok" /\ Parsed.ups # <<>>
  /\ Parsed.validated = <<1>>
  /\ ~SchemaSafeParse(versionMap[latestVersion].schema, Parsed.value).success

----------------------------------------------------------------------------
\* The versions above k, up to the latest, that are absent or tagged initial.
Defects(k) == {j \in (k + 1)..latestVersion : ~Upgradeable(j)}

\* The lowest number of a non-empty set.
Lowest(S) == CHOOSE x \in S : \A y \in S : x <= y

\* C16  First defect wins: when a value resolves to version v and passes
\* its validator, and some versions of v+1..latest are absent or tagged
\* initial, safeParse reports the lowest of them, d
\* (BUG_NO_INTERMEDIATE_FOUND if absent, BUG_INTERMEDIATE_MARKED_INITIAL if
\* initial), after running exactly the upgrades of v+1..d-1 in increasing
\* order; without such a version it succeeds, whatever the definitions at
\* or below v and above the latest version are.
C16_FirstDefectWins ==
  (ParseDone /\ ValidAtResolved) =>
    \A k \in Resolved :
      /\ Defects(k) = {} => Parsed.type = "ok"
      /\ Defects(k) # {} =>
           LET d == Lowest(Defects(k))
           IN  /\ Parsed.type = "err"
               /\ d \notin DOMAIN versionMap =>
                    /\ Parsed.error = "BUG_NO_INTERMEDIATE_FOUND"
                    /\ Parsed.missingVer = {d}
               /\ d \in DOMAIN versionMap =>
                    /\ Parsed.error = "BUG_INTERMEDIATE_MARKED_INITIAL"
                    /\ Parsed.ver = {d}
               /\ Parsed.ups = Ascending(k + 1, d - 1)

\* With version 2 missing and version 3 tagged initial, a version 1 value
\* was refused for the missing version 2.
C16_Witness ==
  /\ ParseDone /\ ValidAtResolved /\ Resolved = {1}
  /\ Defects(1) = {2, 3} /\ 2 \notin DOMAIN versionMap
  /\ Parsed.error = "BUG_NO_INTERMEDIATE_FOUND" /\ Parsed.missingVer = {2}

\* A value of a version that is itself tagged initial, above a missing
\* version and below a version beyond the latest, was migrated.
C16_WitnessDefectsOutside ==
  /\ ParseDone /\ ValidAtResolved /\ Resolved = {2} /\ latestVersion = 2
  /\ versionMap[2].initial /\ DOMAIN versionMap = {2, 3}
  /\ Parsed.type = "ok"

----------------------------------------------------------------------------
\* What the call op(d) returns when nothing else runs.
Alone(op, d) ==
  CASE op = "is"       -> Is(Entity, d)
    [] op = "isLatest" -> IsLatest(Entity, d)
    [] OTHER           -> SafeParse(Entity, d)

\* Every finished call returned what it returns when run alone.
OutcomesAsAlone ==
  \A c \in Callers :
    calls[c].pc = "done" => calls[c].result = <<Alone(calls[c].op, calls[c].data)>>

\* A step leaves the entity's fields and the arguments of the calls in
\* progress as they are.
EntityAndInputsUntouched ==
  /\ versionMap' = versionMap
  /\ latestVersion' = latestVersion
  /\ getVersion' = getVersion
  /\ \A c \in Callers :
       calls[c].pc # "idle" =>
         /\ calls'[c].data = calls[c].data
         /\ calls'[c].op = calls[c].op

\* C14  Concurrent read-only use: in every interleaving of the steps of
\* is, isLatest and safeParse calls on one entity, the version map, the
\* latest version and the resolver stay as constructed, no call's input is
\* changed, and every call returns the outcome it returns when run alone.
C14_ConcurrentReadOnly ==
  /\ []OutcomesAsAlone
  /\ [][EntityAndInputsUntouched]_vars

\* One caller finished migrating a version 1 value through two upgrades
\* while the other was in the middle of migrating a version 2 value.
C14_Witness ==
  /\ calls["c1"].pc = "done" /\ calls["c1"].op = "safeParse"
  /\ calls["c1"].result[1].type = "ok" /\ calls["c1"].result[1].ups = <<2, 3>>
  /\ calls["c2"].pc = "loop" /\ calls["c2"].data.v = {2}
  /\ calls["c2"].ups = <<3>>

====
